---- MODULE Spec2Model ----
(***************************************************************************)
(* State-machine model of bg3_lobby_bot.py: the session record `data`, the *)
(* debounced save timer, the lobby channel with its status and ping        *)
(* messages, and the coroutines (event handlers and slash commands) that   *)
(* run on one asyncio event loop and interleave at their `await`s.         *)
(*                                                                         *)
(* One action is one scheduling step of the event loop: either a handler   *)
(* is started and runs to its first `await` (or to its end), or the I/O a  *)
(* handler is suspended on completes and the handler runs on to its next   *)
(* `await` (or to its end), or a timer callback runs, or the clock ticks.  *)
(***************************************************************************)
EXTENDS Integers, Sequences, FiniteSets, TLC

\* ------------------------------------------------------------------ bounds
\* Handler invocations (events and commands) in one run, on_ready excluded.
MaxOps == 2
\* The clock runs from 2 to MaxTime (seconds).
MaxTime == 4
\* Environment faults in one run: a Forbidden answer, a message deleted by a
\* third party, a failed file write, a permission missing at on_ready.
MaxFaults == 1

\* --------------------------------------------------------- program constants
USER_ID == 0
SaveDelay == 2
CodeLen == 14

BG3_NAME == "Baldur's Gate 3"

\* Python's None for a str-or-None field: a value no Python string equals
\* (strings are sequences of one-character strings).
None == <<"<None>">>
\* Python's None for an int-or-None field (ids and timestamps are >= 0).
NoneInt == -1

\* Truthiness of a str-or-None and of an int-or-None value.
Truthy(s) == s # None /\ s # <<>>
TruthyInt(n) == n # NoneInt /\ n # 0

\* ------------------------------------------------------------------ strings
Digits == <<"0", "1", "2", "3", "4", "5", "6", "7", "8", "9">>
Letters == {"A", "B", "C", "Q", "Z", "s", "h", "o", "r", "t"}
AlnumChars == Letters \cup {Digits[i] : i \in 1..10}

Rep(c, n) == [i \in 1..n |-> c]

\* str(n) for a natural number
RECURSIVE StrOfNat(_)
StrOfNat(n) ==
    IF n < 10 THEN <<Digits[n + 1]>>
    ELSE StrOfNat(n \div 10) \o <<Digits[(n % 10) + 1]>>

IsDigitStr(s) == Len(s) > 0 /\ \A i \in 1..Len(s) : \E d \in 1..10 : Digits[d] = s[i]

DigitVal(c) == (CHOOSE d \in 1..10 : Digits[d] = c) - 1

\* int(s) for a string of decimal digits
RECURSIVE IntOfStr(_)
IntOfStr(s) ==
    IF Len(s) = 1 THEN DigitVal(s[1])
    ELSE 10 * IntOfStr(SubSeq(s, 1, Len(s) - 1)) + DigitVal(s[Len(s)])

\* s.split('/'): the list of the pieces between the slashes
RECURSIVE SplitSlash(_)
SplitSlash(s) ==
    IF \A i \in 1..Len(s) : s[i] # "/" THEN <<s>>
    ELSE LET k == CHOOSE i \in 1..Len(s) : s[i] = "/" /\ \A j \in 1..(i - 1) : s[j] # "/"
         IN <<SubSeq(s, 1, k - 1)>> \o SplitSlash(SubSeq(s, k + 1, Len(s)))

\* curr, max_ = map(int, party_info.split('/')): ok is FALSE where Python raises
ParseParty(s) ==
    LET parts == SplitSlash(s)
    IN IF Len(parts) = 2 /\ IsDigitStr(parts[1]) /\ IsDigitStr(parts[2])
       THEN [ok |-> TRUE, curr |-> IntOfStr(parts[1]), max |-> IntOfStr(parts[2])]
       ELSE [ok |-> FALSE, curr |-> 0, max |-> 0]

\* f"{size[0]}/{size[1]}"
FormatParty(size) == StrOfNat(size[1]) \o <<"/">> \o StrOfNat(size[2])

\* code.isalnum() and len(code) == 14
ValidCode(code) ==
    /\ Len(code) > 0
    /\ \A i \in 1..Len(code) : code[i] \in AlnumChars
    /\ Len(code) = CodeLen

\* parse_party_info(activities): the first activity named BG3_NAME whose party
\* is truthy and carries a size of two elements; None if there is none.
RECURSIVE parse_party_info(_)
parse_party_info(activities) ==
    IF activities = <<>> THEN None
    ELSE LET act == Head(activities)
         IN IF act.name = BG3_NAME /\ act.party /\ Len(act.size) = 2
            THEN FormatParty(act.size)
            ELSE parse_party_info(Tail(activities))


\* ------------------------------------------------------------ the session
\* load_data's default record
default ==
    [code |-> None, timestamp |-> NoneInt, party_info |-> None,
     message_id |-> NoneInt, ping_message_id |-> NoneInt, subscribers |-> <<>>]

\* The global `data` when load_data() raised: the assignment at module level never
\* happened and the process ended there.
Unbound == [raised |-> TRUE]

\* JSON values of a subscribers list: an int, a bool (an int to isinstance),
\* a str, or anything else (null, float, list, object).
JInt(n) == [t |-> "int", i |-> n, s |-> <<>>]
JBool(b) == [t |-> "bool", i |-> IF b THEN 1 ELSE 0, s |-> <<>>]
JStr(s) == [t |-> "str", i |-> 0, s |-> s]
JOther == [t |-> "other", i |-> 0, s |-> <<>>]

\* The content of DATA_FILE. kind: "nofile" (FileNotFoundError), "garbage"
\* (JSONDecodeError), "notdict" (valid JSON, not an object), "dict". keys: the
\* keys the object holds; subs_list: whether its subscribers value is a list.
Doc(kind, keys, d, subs_list, subs) ==
    [kind |-> kind, keys |-> keys, code |-> d.code, timestamp |-> d.timestamp,
     party_info |-> d.party_info, message_id |-> d.message_id,
     ping_message_id |-> d.ping_message_id, subs_list |-> subs_list,
     subscribers |-> subs]

Keys == {"code", "timestamp", "party_info", "message_id", "ping_message_id", "subscribers"}

\* isinstance(u, (int, str))
IsIntOrStr(u) == u.t \in {"int", "bool", "str"}

\* int(u) raises ValueError on a str that is no number
IntRaises(u) == u.t = "str" /\ ~IsDigitStr(u.s)

\* int(u)
IntOf(u) == IF u.t = "str" THEN (IF IsDigitStr(u.s) THEN IntOfStr(u.s) ELSE NoneInt) ELSE u.i

\* load_data() ends in an uncaught ValueError
load_data_raises(doc) ==
    /\ doc.kind = "dict"
    /\ "subscribers" \in doc.keys
    /\ doc.subs_list
    /\ \E k \in 1..Len(doc.subscribers) :
          IsIntOrStr(doc.subscribers[k]) /\ IntRaises(doc.subscribers[k])

\* load_data(), where it returns
load_data(doc) ==
    IF doc.kind # "dict" THEN default
    ELSE LET val(k) == IF k \in doc.keys THEN doc[k] ELSE default[k]
             kept == SelectSeq(doc.subscribers, IsIntOrStr)
         IN [code |-> val("code"), timestamp |-> val("timestamp"),
             party_info |-> val("party_info"), message_id |-> val("message_id"),
             ping_message_id |-> val("ping_message_id"),
             subscribers |->
                 IF "subscribers" \in doc.keys /\ doc.subs_list
                 THEN [k \in 1..Len(kept) |-> IntOf(kept[k])]
                 ELSE <<>>]

\* json.dump(data, f): what _immediate_save leaves in DATA_FILE
Dump(d) ==
    Doc("dict", Keys, d, TRUE, [k \in 1..Len(d.subscribers) |-> JInt(d.subscribers[k])])

\* ---------------------------------------------------------------- the embed
StrNoneShown == <<"N", "o", "n", "e">>
StrNA == <<"N", "/", "A">>

\* build_embed(): color, the Current Code field, the Party Status field (<<>>
\* where the field is left out) and the Last updated field (NoneInt where it
\* is left out).
build_embed(d) ==
    LET code_val == IF Truthy(d.code) THEN d.code ELSE StrNoneShown
        party_info == IF Truthy(d.party_info) THEN d.party_info ELSE StrNA
        p == ParseParty(party_info)
        status == IF p.curr < p.max THEN "Slots available" ELSE "Party is full"
    IN [color |-> IF Truthy(d.party_info) /\ p.ok
                  THEN (IF p.curr < p.max THEN "green" ELSE "red")
                  ELSE "blurple",
        code |-> code_val,
        party |-> IF Truthy(d.party_info)
                  THEN (IF p.ok
                        THEN StrOfNat(p.curr) \o <<"/">> \o StrOfNat(p.max)
                             \o <<" (", status, ")">>
                        ELSE <<>>)
                  ELSE party_info,
        updated |-> IF TruthyInt(d.timestamp) THEN d.timestamp ELSE NoneInt]

NoEmbed == [color |-> "", code |-> <<>>, party |-> <<>>, updated |-> NoneInt]

\* A message of the lobby channel
StatusMsg(id, embed) == [id |-> id, kind |-> "status", embed |-> embed, text |-> <<>>]
\* f"<@{USER_ID}> please set code via `/party set` (Party: {new_party})"
PingMsg(id, new_party) == [id |-> id, kind |-> "ping", embed |-> NoEmbed, text |-> new_party]


\* -------------------------------------------------------------------- state
VARIABLES
    data,           \* the global session dict (Unbound if load_data raised)
    disk,           \* the content of DATA_FILE
    timers,         \* the event loop's scheduled, uncancelled call_later handles
    save_handle,    \* _save_handle: the id of the last handle, NoneInt before the first
    now,            \* the clock, in seconds
    lobby_channel,  \* _lobby_channel is set
    lobby_perms,    \* _lobby_perms, cached by on_ready
    channel,        \* the live messages of the lobby channel
    next_id,        \* the id the next message gets
    tasks,          \* the coroutines under way: tasks[0] is on_ready's
    started,        \* the number of handlers started so far
    last_done,      \* the handler that ended last
    del_failed,     \* a ping deletion has left a live ping in the channel
    dms,            \* the direct messages attempted, in order
    writes,         \* the runs of _immediate_save, in order
    calls,          \* save_data calls since the last run of _immediate_save
    last_call,      \* the time of the last save_data call
    faults_left     \* the faults the environment may still inject

vars == <<data, disk, timers, save_handle, now, lobby_channel, lobby_perms, channel,
          next_id, tasks, started, last_done, del_failed, dms, writes, calls,
          last_call, faults_left>>

Ops == 1..MaxOps
Users == {USER_ID, 1, 2}

NoPerms == [send_messages |-> FALSE, embed_links |-> FALSE]
FullPerms == [send_messages |-> TRUE, embed_links |-> TRUE]

\* A coroutine that has not been started. pc is where it is suspended, op its
\* number in the order of starting; the other fields are its parameters and
\* locals. fanout: it has entered code_set's loop over the subscribers; stayed: the
\* identities that have been in the registry since then; quiet: the registry has
\* not changed since then; del_failed: its ping deletion has left a live ping;
\* before: the registry as subscribe or unsubscribe found it.
NewTask ==
    [pc |-> "new", op |-> 0, kind |-> "", user |-> NoneInt, code |-> None,
     notify |-> FALSE, old_code |-> None, new_party |-> None, old_party |-> None,
     embed |-> NoEmbed, msg |-> NoneInt, idx |-> 0, uid |-> NoneInt, reply |-> "",
     raised |-> FALSE, fanout |-> FALSE, stayed |-> {}, quiet |-> TRUE,
     del_failed |-> FALSE, before |-> <<>>]

Live(id) == \E m \in channel : m.id = id
Statuses == {m \in channel : m.kind = "status"}
Pings == {m \in channel : m.kind = "ping"}

\* The part of the state a coroutine's synchronous code reads and writes: S.data,
\* S.task (its own locals), S.timers and S.handle (the debounce timer), S.calls
\* and S.last_call (the record of save_data calls), S.chan and S.perms.
State(t) ==
    [data |-> data, task |-> tasks[t], timers |-> timers, handle |-> save_handle,
     calls |-> calls, last_call |-> last_call, chan |-> lobby_channel,
     perms |-> lobby_perms]

\* A handler that has ended leaves the loop; last_done keeps its record.
Ended(t, S) == t # 0 /\ S.task.pc = "done"
Slot(t, S) == IF Ended(t, S) THEN NewTask ELSE S.task

\* The step's effect on the session, with T the other coroutines' records.
CommitTasks(t, S, T) ==
    /\ data' = S.data
    /\ tasks' = [T EXCEPT ![t] = Slot(t, S)]
    /\ last_done' = IF Ended(t, S) THEN S.task ELSE last_done
    /\ del_failed' = (del_failed \/ S.task.del_failed)
    /\ timers' = S.timers
    /\ save_handle' = S.handle
    /\ calls' = S.calls
    /\ last_call' = S.last_call
    /\ lobby_channel' = S.chan
    /\ lobby_perms' = S.perms

Commit(t, S) == CommitTasks(t, S, tasks)

\* A save_data that forgets to cancel the pending handle.
CancelNothing(tm, h) == tm

\* _save_handle.cancel(): the handle leaves the loop's schedule
Cancel(tm, h) == {x \in tm : x.id # h}

\* loop.call_later(2, ...): a new handle
FreshHandle(tm) == CHOOSE i \in 1..(Cardinality(tm) + 1) : \A x \in tm : x.id # i

\* save_data(data)
save_data(S) ==
    LET left == Cancel(S.timers, S.handle)
        h == FreshHandle(left)
    IN [S EXCEPT !.timers = left \cup {[id |-> h, when |-> now + SaveDelay]},
                 !.handle = h,
                 !.calls = @ + 1,
                 !.last_call = now]

\* The coroutine ends: by the reply it sends (await interaction.response
\* .send_message) or, for an event handler, by returning.
Finish(S, reply) == [S EXCEPT !.task.pc = "done", !.task.reply = reply]

\* The coroutine ends in an uncaught exception.
Raise(S) == [S EXCEPT !.task.pc = "done", !.task.raised = TRUE]

\* code_set's loop `for uid in data['subscribers']`: the list iterator reads the
\* list as it is now, at its own index.
FanoutNext(S) ==
    IF S.task.idx < Len(S.data.subscribers)
    THEN [S EXCEPT !.task.pc = "dm_fetch_user",
                   !.task.uid = S.data.subscribers[S.task.idx + 1],
                   !.task.idx = @ + 1]
    ELSE Finish(S, "set_ok")

\* A fanout that ignores the notify flag.
NotifiesAnyChange(task) == task.old_code # task.code

\* code_set: `if notify and old_code != code`
Notifies(task) == task.notify /\ task.old_code # task.code

\* code_set after update_message: the loop over the subscribers, if any
Fanout(S) ==
    IF Notifies(S.task)
    THEN FanoutNext([S EXCEPT !.task.fanout = TRUE,
                              !.task.idx = 0,
                              !.task.stayed = {S.data.subscribers[k] :
                                                 k \in 1..Len(S.data.subscribers)}])
    ELSE Finish(S, "set_ok")

\* What follows `await update_message()` in each caller.
AfterRefresh(S) ==
    CASE S.task.kind = "set" -> Fanout(S)
      [] S.task.kind = "clear" -> Finish(S, "cleared")
      [] OTHER -> Finish(S, "")

\* send_or_edit_message's `data['message_id'] = None`, then the await of send
StatusRecreate(S) ==
    [S EXCEPT !.data.message_id = NoneInt, !.task.pc = "status_send"]

\* A refresh that never looks for the message it has sent before.
RefreshAlwaysSends(S) ==
    LET E == [S EXCEPT !.task.embed = build_embed(S.data)]
    IN IF ~E.chan THEN AfterRefresh(E)
       ELSE IF ~(E.perms.send_messages /\ E.perms.embed_links) THEN AfterRefresh(E)
       ELSE [E EXCEPT !.task.pc = "status_send"]

\* update_message(): build_embed(), then send_or_edit_message(embed) up to its
\* first await.
update_message(S) ==
    LET E == [S EXCEPT !.task.embed = build_embed(S.data)]
    IN IF ~E.chan THEN AfterRefresh(E)
       ELSE IF ~(E.perms.send_messages /\ E.perms.embed_links) THEN AfterRefresh(E)
       ELSE IF TruthyInt(E.data.message_id)
            THEN [E EXCEPT !.task.pc = "status_fetch", !.task.msg = E.data.message_id]
            ELSE [E EXCEPT !.task.pc = "status_send"]

\* A deletion that leaves the ping's handle in the session.
PingHandleKept(S) == update_message(save_data(S))

\* After the try/except around the ping's fetch and delete:
\* data['ping_message_id'] = None, save_data(data), await update_message().
AfterPingDelete(S) ==
    update_message(save_data([S EXCEPT !.data.ping_message_id = NoneInt]))

\* `try: old = await _lobby_channel.fetch_message(data['ping_message_id'])`, up to
\* the await; with _lobby_channel None the AttributeError is caught at once and
\* the ping, if it is live, stays.
DeletePing(S) ==
    IF S.chan
    THEN [S EXCEPT !.task.pc = "ping_fetch", !.task.msg = S.data.ping_message_id]
    ELSE AfterPingDelete([S EXCEPT !.task.del_failed = TRUE])

\* ------------------------------------------------------------------- inputs
ValidCode1 == <<"A", "A", "A", "A", "1", "1", "B", "B", "B", "B", "2", "2", "C", "C">>
ValidCode2 == <<"7", "2", "A", "A", "A", "A", "A", "C", "Q", "A", "3", "5", "Z", "6">>
CodeInputs ==
    {ValidCode1, ValidCode2, <<"s", "h", "o", "r", "t">>, Rep("A", CodeLen - 1) \o <<"!">>}

Act(name, party, size) == [name |-> name, party |-> party, size |-> size]
ActivityInputs ==
    {<<>>,
     <<Act(BG3_NAME, TRUE, <<1, 4>>)>>,
     <<Act(BG3_NAME, TRUE, <<4, 4>>)>>,
     <<Act("Other", TRUE, <<2, 2>>), Act(BG3_NAME, TRUE, <<1, 4>>)>>,
     <<Act(BG3_NAME, FALSE, <<>>)>>,
     <<Act(BG3_NAME, TRUE, <<3>>), Act(BG3_NAME, TRUE, <<4, 4>>)>>}

\* ------------------------------------------------------------------ actions
\* A handler starts in the first free slot, while fewer than MaxOps have started.
Fresh(t) ==
    /\ data # Unbound
    /\ started < MaxOps
    /\ tasks[t].pc = "new"
    /\ \A u \in Ops : u < t => tasks[u].pc # "new"

Begin(t, kind, user) ==
    [State(t) EXCEPT !.task.kind = kind, !.task.user = user, !.task.op = started + 1]

Env == <<disk, now, channel, next_id, dms, writes, faults_left>>

\* on_ready up to `await bot.tree.sync()`
OnReady ==
    /\ data # Unbound
    /\ tasks[0].pc = "new"
    /\ Commit(0, [State(0) EXCEPT !.task.kind = "ready", !.task.pc = "sync"])
    /\ UNCHANGED <<Env, started>>

\* on_ready from the sync's return: the channel and the permissions are cached,
\* then update_message(). A permission the bot lacks is a fault of the environment.
OnReadySynced ==
    /\ tasks[0].pc = "sync"
    /\ \E p \in [send_messages : BOOLEAN, embed_links : BOOLEAN] :
          /\ p # FullPerms => faults_left > 0
          /\ faults_left' = IF p = FullPerms THEN faults_left ELSE faults_left - 1
          /\ Commit(0, update_message([State(0) EXCEPT !.chan = TRUE, !.perms = p]))
    /\ UNCHANGED <<disk, now, channel, next_id, dms, writes, started>>

\* A reconciler that takes every reading for a change.
DiffersAlways(new_party, old_party) == TRUE

\* on_presence_update: `if new_party != old_party`
Differs(new_party, old_party) == new_party # old_party

\* A departure that keeps the code.
PartyEndedKeepsCode(M) == M

\* on_presence_update: `if new_party is None: data['code'] = None`
PartyEnded(M) == [M EXCEPT !.data.code = None]

\* A reconciler that pings on every reading with a party while no code is set.
PingsOnResize(new_party, old_party, code) == Truthy(new_party) /\ code = None

\* on_presence_update: `if new_party and old_party is None and data.get('code') is None`
Appeared(new_party, old_party, code) ==
    Truthy(new_party) /\ old_party = None /\ code = None

\* on_presence_update(before, after)
on_presence_update(t, user, activities) ==
    LET S == Begin(t, "presence", user)
        new_party == parse_party_info(activities)
        old_party == S.data.party_info
        M == [S EXCEPT !.task.new_party = new_party, !.task.old_party = old_party,
                       !.data.party_info = new_party, !.data.timestamp = now]
        Gone == PartyEnded(M)
    IN IF user # USER_ID THEN Finish(S, "")
       ELSE IF ~Differs(new_party, old_party)
            THEN Finish([S EXCEPT !.task.new_party = new_party,
                                  !.task.old_party = old_party], "")
       ELSE IF new_party = None
            THEN IF TruthyInt(Gone.data.ping_message_id)
                 THEN DeletePing(Gone)
                 ELSE update_message(save_data(Gone))
       ELSE IF Appeared(new_party, old_party, M.data.code)
            THEN IF ~M.chan THEN Raise(M)
                 ELSE IF M.perms.send_messages THEN [M EXCEPT !.task.pc = "ping_send"]
                 ELSE update_message(save_data(M))
       ELSE update_message(save_data(M))

PresenceUpdate(t) ==
    /\ Fresh(t)
    /\ \E user \in {USER_ID, 1}, activities \in ActivityInputs :
          Commit(t, on_presence_update(t, user, activities))
    /\ started' = started + 1
    /\ UNCHANGED Env

\* A rejection that comes after the time stamp has been written.
DenyLate(S, reply) == Finish([S EXCEPT !.data.timestamp = now], reply)

\* code_set, code_clear: `return await interaction.response.send_message("...")`
\* before anything is written
Deny(S, reply) == Finish(S, reply)

\* code_set(interaction, code, notify)
code_set(t, user, code, notify) ==
    LET S == [Begin(t, "set", user) EXCEPT !.task.code = code, !.task.notify = notify]
        M == [S EXCEPT !.task.old_code = S.data.code,
                       !.data.code = code,
                       !.data.timestamp = now,
                       !.data.party_info = S.data.party_info]
    IN IF user # USER_ID THEN Deny(S, "deny_host")
       ELSE IF ~ValidCode(code) THEN Deny(S, "deny_format")
       ELSE IF TruthyInt(M.data.ping_message_id) THEN DeletePing(M)
       ELSE AfterPingDelete(M)

CodeSet(t) ==
    /\ Fresh(t)
    /\ \E user \in {USER_ID, 1}, code \in CodeInputs, notify \in BOOLEAN :
          Commit(t, code_set(t, user, code, notify))
    /\ started' = started + 1
    /\ UNCHANGED Env

\* A clear that leaves the party as it is.
ClearedCodeOnly(S) == [S EXCEPT !.data.code = None, !.data.timestamp = now]

\* code_clear: data['code'] = None, data['timestamp'] = ..., data['party_info'] = None
Cleared(S) ==
    [S EXCEPT !.data.code = None, !.data.timestamp = now, !.data.party_info = None]

\* code_clear(interaction)
code_clear(t, user) ==
    LET S == Begin(t, "clear", user)
        M == Cleared(S)
    IN IF user # USER_ID THEN Deny(S, "deny_host")
       ELSE IF TruthyInt(M.data.ping_message_id) THEN DeletePing(M)
       ELSE AfterPingDelete(M)

CodeClear(t) ==
    /\ Fresh(t)
    /\ \E user \in {USER_ID, 1} : Commit(t, code_clear(t, user))
    /\ started' = started + 1
    /\ UNCHANGED Env


\* A remove that takes out every x.
RemoveAll(list, x) == SelectSeq(list, LAMBDA e : e # x)

\* list.remove(x): the list without its first x
RECURSIVE Remove(_, _)
Remove(list, x) ==
    IF list = <<>> THEN <<>>
    ELSE IF Head(list) = x THEN Tail(list)
    ELSE <<Head(list)>> \o Remove(Tail(list), x)

In(x, list) == \E k \in 1..Len(list) : list[k] = x

\* An identity that leaves the registry has not stayed through the fanouts
\* that are under way.
Left(T, uid) ==
    [u \in DOMAIN T |-> IF T[u].fanout
                        THEN [T[u] EXCEPT !.stayed = @ \ {uid}, !.quiet = FALSE]
                        ELSE T[u]]

\* An identity joins the registry while fanouts are under way.
Joined(T) ==
    [u \in DOMAIN T |-> IF T[u].fanout THEN [T[u] EXCEPT !.quiet = FALSE] ELSE T[u]]

\* subscribe(interaction)
subscribe(t, uid) ==
    LET S == [Begin(t, "subscribe", uid) EXCEPT !.task.before = data.subscribers]
    IN IF In(uid, S.data.subscribers) THEN Finish(S, "already_subscribed")
       ELSE Finish(save_data([S EXCEPT !.data.subscribers = Append(@, uid)]), "subscribed")

Subscribe(t) ==
    /\ Fresh(t)
    /\ \E uid \in Users :
          LET S == subscribe(t, uid)
          IN CommitTasks(t, S, IF S.task.reply = "subscribed" THEN Joined(tasks) ELSE tasks)
    /\ started' = started + 1
    /\ UNCHANGED Env

\* unsubscribe(interaction)
unsubscribe(t, uid) ==
    LET S == [Begin(t, "unsubscribe", uid) EXCEPT !.task.before = data.subscribers]
    IN IF ~In(uid, S.data.subscribers) THEN Finish(S, "not_subscribed")
       ELSE Finish(save_data([S EXCEPT !.data.subscribers = Remove(@, uid)]), "unsubscribed")

Unsubscribe(t) ==
    /\ Fresh(t)
    /\ \E uid \in Users :
          LET S == unsubscribe(t, uid)
          IN CommitTasks(t, S, IF S.task.reply = "unsubscribed" THEN Left(tasks, uid)
                                ELSE tasks)
    /\ started' = started + 1
    /\ UNCHANGED Env

\* code_info(interaction): an ephemeral reply, no effect
code_info(t, user) ==
    LET S == Begin(t, "info", user)
    IN Finish(S, IF In(user, S.data.subscribers) THEN "info_subscribed" ELSE "info_hint")

CodeInfo(t) ==
    /\ Fresh(t)
    /\ \E user \in Users : Commit(t, code_info(t, user))
    /\ started' = started + 1
    /\ UNCHANGED Env

\* bg3lb_status(interaction): an ephemeral reply, no effect
bg3lb_status(t, user) == Finish(Begin(t, "status", user), "status")

Bg3lbStatus(t) ==
    /\ Fresh(t)
    /\ \E user \in Users : Commit(t, bg3lb_status(t, user))
    /\ started' = started + 1
    /\ UNCHANGED Env

\* -------------------------------------------------- the awaited I/O completes
\* A Forbidden answer on a live message is a fault of the environment.
Fault == faults_left > 0 /\ faults_left' = faults_left - 1
NoFault == faults_left' = faults_left

\* send_or_edit_message: `msg = await _lobby_channel.fetch_message(msg_id)` returns
\* or raises NotFound or Forbidden
StatusFetched(t) ==
    /\ tasks[t].pc = "status_fetch"
    /\ \/ /\ Live(tasks[t].msg)
          /\ NoFault
          /\ Commit(t, [State(t) EXCEPT !.task.pc = "status_edit"])
       \/ /\ IF Live(tasks[t].msg) THEN Fault ELSE NoFault
          /\ Commit(t, StatusRecreate(State(t)))
    /\ UNCHANGED <<disk, now, channel, next_id, dms, writes, started>>

\* send_or_edit_message: `await msg.edit(embed=embed)` returns or raises
StatusEdited(t) ==
    /\ tasks[t].pc = "status_edit"
    /\ \/ /\ Live(tasks[t].msg)
          /\ NoFault
          /\ channel' = {IF m.id = tasks[t].msg THEN [m EXCEPT !.embed = tasks[t].embed]
                         ELSE m : m \in channel}
          /\ Commit(t, AfterRefresh(State(t)))
       \/ /\ IF Live(tasks[t].msg) THEN Fault ELSE NoFault
          /\ UNCHANGED channel
          /\ Commit(t, StatusRecreate(State(t)))
    /\ UNCHANGED <<disk, now, next_id, dms, writes, started>>

\* send_or_edit_message: `msg = await _lobby_channel.send(embed=embed)` returns
\* (message_id is stored, save_data) or raises Forbidden
StatusSent(t) ==
    /\ tasks[t].pc = "status_send"
    /\ \/ /\ NoFault
          /\ channel' = channel \cup {StatusMsg(next_id, tasks[t].embed)}
          /\ next_id' = next_id + 1
          /\ Commit(t, AfterRefresh(save_data([State(t) EXCEPT !.data.message_id = next_id])))
       \/ /\ Fault
          /\ UNCHANGED <<channel, next_id>>
          /\ Commit(t, AfterRefresh(State(t)))
    /\ UNCHANGED <<disk, now, dms, writes, started>>

\* `old = await _lobby_channel.fetch_message(data['ping_message_id'])` returns or
\* raises (any exception is swallowed)
PingFetched(t) ==
    /\ tasks[t].pc = "ping_fetch"
    /\ \/ /\ Live(tasks[t].msg)
          /\ NoFault
          /\ Commit(t, [State(t) EXCEPT !.task.pc = "ping_delete"])
       \/ /\ IF Live(tasks[t].msg) THEN Fault ELSE NoFault
          /\ Commit(t, AfterPingDelete([State(t) EXCEPT !.task.del_failed = Live(tasks[t].msg)]))
    /\ UNCHANGED <<disk, now, channel, next_id, dms, writes, started>>

\* `await old.delete()` returns or raises (any exception is swallowed)
PingDeleted(t) ==
    /\ tasks[t].pc = "ping_delete"
    /\ \/ /\ Live(tasks[t].msg)
          /\ NoFault
          /\ channel' = {m \in channel : m.id # tasks[t].msg}
          /\ Commit(t, AfterPingDelete(State(t)))
       \/ /\ IF Live(tasks[t].msg) THEN Fault ELSE NoFault
          /\ UNCHANGED channel
          /\ Commit(t, AfterPingDelete([State(t) EXCEPT !.task.del_failed = Live(tasks[t].msg)]))
    /\ UNCHANGED <<disk, now, next_id, dms, writes, started>>

\* on_presence_update: `ping = await _lobby_channel.send(...)` returns; the id is
\* stored, then save_data(data) and update_message()
PingSent(t) ==
    /\ tasks[t].pc = "ping_send"
    /\ channel' = channel \cup {PingMsg(next_id, tasks[t].new_party)}
    /\ next_id' = next_id + 1
    /\ Commit(t, update_message(save_data([State(t) EXCEPT !.data.ping_message_id = next_id])))
    /\ UNCHANGED <<disk, now, dms, writes, faults_left, started>>

\* code_set: `user = await bot.fetch_user(uid)` returns
DmUserFetched(t) ==
    /\ tasks[t].pc = "dm_fetch_user"
    /\ Commit(t, [State(t) EXCEPT !.task.pc = "dm_send"])
    /\ UNCHANGED <<Env, started>>

\* A Forbidden that ends the loop: the try around the loop, not inside it.
ForbiddenEndsLoop(S) == Finish(S, "set_ok")

\* code_set: `except discord.Forbidden: logger.warning(...)`, inside the loop
Forbidden(S) == FanoutNext(S)

DM(t, ok) == [op |-> tasks[t].op, uid |-> tasks[t].uid, code |-> tasks[t].code, ok |-> ok]

\* code_set: `await user.send(...)` returns or raises Forbidden, which is logged;
\* either way the loop goes on
DmSent(t) ==
    /\ tasks[t].pc = "dm_send"
    /\ \/ /\ NoFault
          /\ dms' = Append(dms, DM(t, TRUE))
          /\ Commit(t, FanoutNext(State(t)))
       \/ /\ Fault
          /\ dms' = Append(dms, DM(t, FALSE))
          /\ Commit(t, Forbidden(State(t)))
    /\ UNCHANGED <<disk, now, channel, next_id, writes, started>>

\* ------------------------------------------------------ timer and environment
Session ==
    <<data, timers, save_handle, calls, last_call, lobby_channel, lobby_perms, tasks,
      started, last_done, del_failed>>

\* _immediate_save(data): the timer's lambda holds the session dict itself, so
\* what is written is the session as it is when the timer fires. A failed write
\* is logged and leaves the file as it was.
ImmediateSave(tm) ==
    /\ tm \in timers
    /\ tm.when <= now
    /\ timers' = timers \ {tm}
    /\ calls' = 0
    /\ \/ /\ NoFault
          /\ disk' = Dump(data)
          /\ writes' = Append(writes, [at |-> now, calls |-> calls, last_call |-> last_call,
                                       ok |-> TRUE, doc |-> Dump(data)])
       \/ /\ Fault
          /\ disk' = disk
          /\ writes' = Append(writes, [at |-> now, calls |-> calls, last_call |-> last_call,
                                       ok |-> FALSE, doc |-> Dump(data)])
    /\ UNCHANGED <<data, save_handle, last_call, lobby_channel, lobby_perms, tasks,
                   started, last_done, del_failed, now, channel, next_id, dms>>

\* A second passes; a timer that is due runs first.
Tick ==
    /\ now < MaxTime
    /\ \A tm \in timers : tm.when > now
    /\ now' = now + 1
    /\ UNCHANGED <<Session, disk, channel, next_id, dms, writes, faults_left>>

\* Somebody else deletes a message of the channel.
ExternalDelete ==
    /\ Fault
    /\ \E m \in channel : channel' = channel \ {m}
    /\ UNCHANGED <<Session, disk, now, next_id, dms, writes>>

\* ----------------------------------------------------------- specification
\* DATA_FILE at the start: none, or the snapshot of an earlier run that ended
\* with a party announced, its ping out and two subscribers.
DocFresh == Doc("nofile", {}, default, FALSE, <<>>)
DocParty ==
    Doc("dict", Keys,
        [code |-> None, timestamp |-> 1, party_info |-> FormatParty(<<1, 4>>),
         message_id |-> 1, ping_message_id |-> 2],
        TRUE, <<JInt(1), JStr(<<"2">>)>>)
InitDocs == {DocFresh, DocParty}

\* The messages an earlier run left in the channel.
InitChannel(d) ==
    IF d = Unbound THEN {} ELSE
    (IF TruthyInt(d.message_id) THEN {StatusMsg(d.message_id, build_embed(d))} ELSE {})
    \cup (IF TruthyInt(d.ping_message_id) THEN {PingMsg(d.ping_message_id, d.party_info)}
          ELSE {})

BootFrom(docs, f) ==
    /\ disk \in docs
    /\ data = IF load_data_raises(disk) THEN Unbound ELSE load_data(disk)
    /\ timers = {}
    /\ save_handle = NoneInt
    /\ now = 2
    /\ lobby_channel = FALSE
    /\ lobby_perms = NoPerms
    /\ channel = InitChannel(data)
    /\ next_id = 3
    /\ tasks = [t \in 0..MaxOps |-> NewTask]
    /\ started = 0
    /\ last_done = NewTask
    /\ del_failed = FALSE
    /\ dms = <<>>
    /\ writes = <<>>
    /\ calls = 0
    /\ last_call = NoneInt
    /\ faults_left = f

Boot(f) == BootFrom(InitDocs, f)

\* A step of on_ready or of a handler.
Handlers ==
    \/ OnReady
    \/ OnReadySynced
    \/ \E t \in Ops : PresenceUpdate(t)
    \/ \E t \in Ops : CodeSet(t)
    \/ \E t \in Ops : CodeClear(t)
    \/ \E t \in Ops : Subscribe(t)
    \/ \E t \in Ops : Unsubscribe(t)
    \/ \E t \in Ops : CodeInfo(t)
    \/ \E t \in Ops : Bg3lbStatus(t)
    \/ \E t \in 0..MaxOps : StatusFetched(t)
    \/ \E t \in 0..MaxOps : StatusEdited(t)
    \/ \E t \in 0..MaxOps : StatusSent(t)
    \/ \E t \in Ops : PingFetched(t)
    \/ \E t \in Ops : PingDeleted(t)
    \/ \E t \in Ops : PingSent(t)
    \/ \E t \in Ops : DmUserFetched(t)
    \/ \E t \in Ops : DmSent(t)

\* Spec: the handlers with the timer and the clock, in an environment that
\* never fails.
Init == Boot(0)

Next ==
    \/ Handlers
    \/ \E tm \in timers : ImmediateSave(tm)
    \/ Tick

Spec == Init /\ [][Next]_vars

\* SpecFaults: the handlers in an environment that may fail MaxFaults times,
\* within one second (no timer comes due).
InitFaults == Boot(MaxFaults)

NextFaults ==
    \/ Handlers
    \/ ExternalDelete

SpecFaults == InitFaults /\ [][NextFaults]_vars

\* SpecLoad: the registry commands on a session loaded from any DATA_FILE: a
\* missing or unreadable file, JSON that is no object, an object with keys
\* missing, a subscribers value that is no list, and subscriber lists of mixed
\* representation (ints, bools, numeric and non-numeric strings, other values).
DocOf(keys, subs_list, subs) ==
    Doc("dict", keys,
        [code |-> None, timestamp |-> 1, party_info |-> None, message_id |-> NoneInt,
         ping_message_id |-> NoneInt],
        subs_list, subs)

LoadDocs ==
    {DocFresh, DocParty,
     Doc("garbage", {}, default, FALSE, <<>>),
     Doc("notdict", {}, default, FALSE, <<>>),
     DocOf({"code", "timestamp"}, FALSE, <<>>),
     DocOf(Keys, FALSE, <<>>),
     DocOf(Keys, TRUE, <<>>),
     DocOf(Keys, TRUE, <<JInt(1), JInt(2)>>),
     DocOf(Keys, TRUE, <<JInt(2), JOther, JStr(<<"1">>)>>),
     DocOf(Keys, TRUE, <<JBool(TRUE), JInt(2)>>),
     DocOf(Keys, TRUE, <<JInt(1), JStr(<<"1">>)>>),
     DocOf(Keys, TRUE, <<JInt(1), JInt(2), JInt(1)>>),
     DocOf(Keys, TRUE, <<JStr(<<"a", "b", "c">>)>>),
     DocOf(Keys, TRUE, <<JInt(1), JStr(<<"x", "2">>)>>)}

InitLoad == BootFrom(LoadDocs, 0)

NextLoad ==
    \/ \E t \in Ops : Subscribe(t)
    \/ \E t \in Ops : Unsubscribe(t)
    \/ \E t \in Ops : CodeInfo(t)

SpecLoad == InitLoad /\ [][NextLoad]_vars


\* ------------------------------------------------------------------ claims
\* The handler started last: under way in its slot, or already ended.
Newest ==
    IF last_done.op = started THEN last_done
    ELSE IF \E t \in Ops : tasks[t].op = started
         THEN tasks[CHOOSE t \in Ops : tasks[t].op = started]
         ELSE NewTask

\* This step starts a handler.
Starts == started' = started + 1

\* This step starts a `set` (a `clear`) that passes the owner and format checks.
StartsSet == Starts /\ Newest'.kind = "set" /\ Newest'.user = USER_ID /\ ValidCode(Newest'.code)
StartsClear == Starts /\ Newest'.kind = "clear" /\ Newest'.user = USER_ID

\* What a handler may not touch when it changes nothing: the session, the
\* channel, the timer, the file and the direct messages.
Effects == <<data, channel, next_id, timers, save_handle, calls, last_call, disk, writes, dms>>

\* The record of coroutine t after this step, if the step ends it or not.
After(t) == IF tasks'[t].pc = "new" THEN last_done' ELSE tasks'[t]

\* The identities that handler `op` has tried to notify, in order.
Attempted(op) ==
    LET mine == SelectSeq(dms, LAMBDA e : e.op = op)
    IN [k \in 1..Len(mine) |-> mine[k].uid]

\* C1 as stated (invariant I1): in every reachable state where party_info is
\* absent, code is absent.
C1_I1 == data.party_info = None => data.code = None

\* C1 as amended: a state with party_info absent and code present arises only
\* from a `set` accepted while no party is active, or persists from such a state;
\* in particular every step that makes party_info absent leaves code absent.
C1_OnlySetBreaksI1 ==
    [][(data'.party_info = None /\ data'.code # None)
        => /\ data.party_info = None
           /\ data'.code = data.code \/ StartsSet]_vars

\* C1 witness: a code was set and notified (handler 1), then a departure
\* (handler 2) ended the party and left code absent.
C1_DepartureAfterSet ==
    /\ last_done.kind = "presence"
    /\ last_done.op = 2
    /\ last_done.old_party # None
    /\ last_done.new_party = None
    /\ dms # <<>>
    /\ dms[1].op = 1
    /\ data.party_info = None
    /\ data.code = None

\* C2 as stated: at most one status message is live in the channel, and it is the
\* one message_id refers to.
C2_OneStatus ==
    /\ Cardinality(Statuses) <= 1
    /\ \A m \in Statuses : m.id = data.message_id

\* C3 as stated: as long as no ping deletion has failed, at most one ping message
\* is live in the channel.
C3_OnePing == ~del_failed => Cardinality(Pings) <= 1

C5_RejectedUnchanged ==
    [][(/\ Starts
        /\ \/ Newest'.kind = "set" /\ (Newest'.user # USER_ID \/ ~ValidCode(Newest'.code))
           \/ Newest'.kind = "clear" /\ Newest'.user # USER_ID)
        => /\ Newest'.pc = "done"
           /\ Newest'.reply \in {"deny_host", "deny_format"}
           /\ UNCHANGED Effects]_vars

\* C5 witness: the owner's `set` of a 14-character code with a punctuation mark
\* has been rejected for its format.
C5_FormatRejected ==
    /\ last_done.kind = "set"
    /\ last_done.user = USER_ID
    /\ Len(last_done.code) = CodeLen
    /\ last_done.reply = "deny_format"

\* C6 as stated: the owner's `clear` leaves party_info unchanged.
C6_ClearKeepsParty == [][StartsClear => data'.party_info = data.party_info]_vars

\* C6 as amended: the owner's `clear` makes code and party_info absent and sets
\* the time stamp, leaving the subscribers; it then deletes the ping, if there is
\* one, clears the ping handle, schedules a save and renders the status from the
\* session as it then is.
C6_ClearEndsParty ==
    [][/\ StartsClear
          => /\ data'.code = None
             /\ data'.party_info = None
             /\ data'.timestamp = now
             /\ data'.subscribers = data.subscribers
             /\ IF TruthyInt(data.ping_message_id) /\ lobby_channel
                THEN Newest'.pc = "ping_fetch" /\ Newest'.msg = data.ping_message_id
                ELSE /\ data'.ping_message_id = NoneInt
                     /\ calls' = calls + 1
                     /\ Newest'.embed = build_embed(data')
       /\ \A t \in Ops :
            (/\ tasks[t].kind = "clear"
             /\ tasks[t].pc \in {"ping_fetch", "ping_delete"}
             /\ After(t).pc \notin {"ping_fetch", "ping_delete"})
            => /\ \A m \in channel' : m.id # tasks[t].msg
               /\ data'.ping_message_id = NoneInt
               /\ calls' = calls + 1
               /\ After(t).embed = build_embed(data')]_vars

\* C6 witness: the only handler so far was the owner's `clear`, run with a party
\* on record, and the party is gone.
C6_ClearedWithParty ==
    /\ started = 1
    /\ last_done.kind = "clear"
    /\ last_done.reply = "cleared"
    /\ writes = <<>>
    /\ disk.party_info # None
    /\ data.party_info = None
    /\ data.code = None

\* C7: a direct message is attempted only by an accepted `set` whose notify flag
\* is true and whose code differs from the code stored when it started; a `set`
\* that is rejected, repeats the code or has notify false attempts none.
C7_NoneWithoutChange ==
    (last_done.kind # "set" \/ ~last_done.notify \/ last_done.old_code = last_done.code
        \/ last_done.reply # "set_ok")
    => \A k \in 1..Len(dms) : dms[k].op # last_done.op \/ last_done.op = 0

C7_OnlySetNotifies ==
    /\ []C7_NoneWithoutChange
    /\ [][/\ StartsSet => Newest'.old_code = data.code
          /\ dms' # dms
               => \E t \in Ops, ok \in BOOLEAN :
                    /\ tasks[t].kind = "set"
                    /\ tasks[t].pc = "dm_send"
                    /\ tasks[t].user = USER_ID
                    /\ ValidCode(tasks[t].code)
                    /\ tasks[t].notify
                    /\ tasks[t].old_code # tasks[t].code
                    /\ dms' = Append(dms, [op |-> tasks[t].op, uid |-> tasks[t].uid,
                                           code |-> tasks[t].code, ok |-> ok])]_vars

\* C7 witness: a subscriber has been sent the code that is now stored.
C7_Notified == \E k \in 1..Len(dms) : dms[k].ok /\ dms[k].code = data.code

\* C8: a Forbidden for one subscriber leaves code as it is and the loop goes on
\* with the next subscriber; a fanout during which the registry did not change
\* has attempted every subscriber, in registry order, failures included.
C8_AllAttempted ==
    (last_done.fanout /\ last_done.quiet) => Attempted(last_done.op) = data.subscribers

C9_StayedAttemptedOnce ==
    last_done.fanout
    => \A u \in last_done.stayed :
         Cardinality({k \in 1..Len(dms) : dms[k].op = last_done.op /\ dms[k].uid = u}) = 1

\* C10: there is never more than one timer pending; one is pending exactly when
\* save_data has been called since the last write, and it is due SaveDelay after
\* the last call; every write covers at least one call, comes SaveDelay after the
\* last of them and at least SaveDelay after the write before it, and writes the
\* session as it is when the timer fires.
C10_OneSlot ==
    /\ Cardinality(timers) <= 1
    /\ (timers # {}) <=> (calls > 0)
    /\ \A tm \in timers : tm.id = save_handle /\ tm.when = last_call + SaveDelay
    /\ \A k \in 1..Len(writes) :
         /\ writes[k].calls >= 1
         /\ writes[k].at = writes[k].last_call + SaveDelay
         /\ k > 1 => writes[k].at >= writes[k - 1].at + SaveDelay

C10_Debounce ==
    /\ []C10_OneSlot
    /\ [][writes' # writes
            => /\ timers' = {}
               /\ disk' = Dump(data)
               /\ Len(writes') = Len(writes) + 1
               /\ writes'[Len(writes')].doc = Dump(data')]_vars

\* C10 witness: one write has covered two or more save_data calls.
C10_Coalesced == \E k \in 1..Len(writes) : writes[k].calls >= 2 /\ writes[k].ok

\* C11 as stated (invariant I3): the registry of a loaded session, and after any
\* sequence of subscribe and unsubscribe, holds no identity twice, and the
\* identity that has just unsubscribed is not a member.
C11_I3 ==
    data # Unbound
    => /\ \A i, j \in 1..Len(data.subscribers) :
            i # j => data.subscribers[i] # data.subscribers[j]
       /\ (last_done.kind = "unsubscribe" /\ last_done.reply = "unsubscribed"
              /\ last_done.op = started)
            => ~In(last_done.user, data.subscribers)

\* This step starts `kind` for the identity whose subscribe was the handler
\* before it, with no handler in between.
AfterSubscribe(kind) ==
    /\ Starts
    /\ last_done.op = started
    /\ last_done.kind = "subscribe"
    /\ Newest'.kind = kind
    /\ Newest'.user = last_done.user

\* C12 as stated: subscribe(u) then unsubscribe(u) restores the registry as it
\* was before the two calls, for any u and any registry; subscribe(u) twice leaves
\* the registry after the second call as it was after the first.
C12_RoundTrip ==
    [][/\ AfterSubscribe("unsubscribe") => data'.subscribers = last_done.before
       /\ AfterSubscribe("subscribe") => data'.subscribers = data.subscribers]_vars

\* C12 as amended: subscribe(u) then unsubscribe(u) restores the registry if u
\* was not a member before the two calls; if u was a member, subscribe changes
\* nothing and unsubscribe takes out u's first occurrence. subscribe(u) twice
\* leaves the registry after the second call as it was after the first.
C12_RoundTripOfNewMember ==
    [][/\ AfterSubscribe("unsubscribe")
            => /\ Newest'.reply = "unsubscribed"
               /\ LET u == last_done.user
                      before == last_done.before
                      at == {k \in 1..Len(before) : before[k] = u}
                  IN IF at # {}
                     THEN /\ data.subscribers = before
                          /\ \E k \in at :
                                /\ \A j \in at : k <= j
                                /\ data'.subscribers =
                                     SubSeq(before, 1, k - 1) \o SubSeq(before, k + 1, Len(before))
                     ELSE data'.subscribers = before
       /\ AfterSubscribe("subscribe")
            => /\ Newest'.reply = "already_subscribed"
               /\ data'.subscribers = data.subscribers]_vars

\* C12 witness: an identity that was no member of a loaded registry of two has
\* subscribed and then unsubscribed, and the registry is as it was loaded.
C12_Restored ==
    /\ started = 2
    /\ last_done.kind = "unsubscribe"
    /\ last_done.reply = "unsubscribed"
    /\ Len(last_done.before) = 3
    /\ last_done.before[3] = last_done.user
    /\ ~In(last_done.user, data.subscribers)
    /\ data.subscribers = load_data(disk).subscribers

\* The entries of a stored subscribers list that have a numeric identity, as
\* that identity, in order.
Normalized(doc) ==
    LET num(u) == u.t \in {"int", "bool"} \/ (u.t = "str" /\ IsDigitStr(u.s))
        kept == SelectSeq(doc.subscribers, num)
    IN [k \in 1..Len(kept) |-> IF kept[k].t = "str" THEN IntOfStr(kept[k].s) ELSE kept[k].i]

\* C13 as stated: whatever DATA_FILE holds, load_data returns a session, whose
\* registry is the numeric and numeric-looking entries of the stored list, as
\* numbers, the other entries being dropped.
C13_LoadReturns ==
    /\ data # Unbound
    /\ (started = 0 /\ disk.kind = "dict" /\ "subscribers" \in disk.keys /\ disk.subs_list)
         => data.subscribers = Normalized(disk)

\* This step starts a handler that changes nothing in the session and calls
\* update_message(), while nothing else is under way and the handler before it
\* has called update_message() too: the second of two refreshes with no mutation
\* between them.
SecondRefresh ==
    /\ Starts
    /\ \A t \in 0..MaxOps : tasks[t].pc \in {"new", "done"}
    /\ last_done.op = started
    /\ last_done.embed # NoEmbed
    /\ Newest'.embed # NoEmbed
    /\ data' = data

\* C14 as stated: the second refresh attempts no send, whatever the first did.
C14_SecondNeverSends == [][SecondRefresh => Newest'.pc # "status_send"]_vars

\* C14 as amended: the second refresh goes for one edit of the stored message if
\* there is one; it goes for a send at once only if there is none, the first
\* refresh's send having failed. Any refresh attempts at most one edit, and a
\* send after it only if the fetch or the edit failed.
C14_SecondEditsStored ==
    [][/\ SecondRefresh
            => /\ Newest'.pc \in {"status_fetch", "status_send", "dm_fetch_user", "done"}
               /\ (TruthyInt(data.message_id) /\ lobby_channel
                     /\ lobby_perms.send_messages /\ lobby_perms.embed_links)
                    => Newest'.pc = "status_fetch" /\ Newest'.msg = data.message_id
               /\ Newest'.pc = "status_send"
                    => ~TruthyInt(data.message_id) /\ faults_left < MaxFaults
       /\ \A t \in 0..MaxOps :
            /\ (tasks'[t].pc = "status_edit" /\ tasks[t].pc # "status_edit")
                 => tasks[t].pc = "status_fetch"
            /\ (tasks'[t].pc = "status_fetch" /\ tasks[t].pc # "status_fetch")
                 => tasks[t].pc \notin {"status_edit", "status_send"}
            /\ (tasks[t].pc \in {"status_fetch", "status_edit"} /\ tasks'[t].pc = "status_send")
                 => ~Live(tasks[t].msg) \/ faults_left' < faults_left]_vars

\* C14 witness: the owner has set the code that was stored already, after
\* on_ready, and the one status message shows the session.
C14_Refreshed ==
    /\ started = 2
    /\ tasks[0].pc = "done"
    /\ last_done.op = 2
    /\ last_done.kind = "set"
    /\ last_done.reply = "set_ok"
    /\ last_done.old_code = last_done.code
    /\ last_done.msg = data.message_id
    /\ Statuses = {StatusMsg(data.message_id, build_embed(data))}

\* C15: a handler comes to send a ping only as the reconciler's first step on a
\* reading for the owner with a party, taken while the stored party_info and
\* code are absent (so never with a code stored, never on a change of size); a
\* ping enters the channel, and a ping handle is stored, only when such a send
\* returns.
C15_PingOnlyOnAppearance ==
    [][/\ \A t \in Ops :
            (tasks'[t].pc = "ping_send" /\ tasks[t].pc # "ping_send")
            => /\ Starts
               /\ tasks'[t] = Newest'
               /\ tasks'[t].kind = "presence"
               /\ tasks'[t].user = USER_ID
               /\ data.party_info = None
               /\ data.code = None
               /\ tasks'[t].new_party # None
               /\ data'.party_info = tasks'[t].new_party
               /\ data'.code = None
       /\ (Pings' \ Pings # {}
            \/ (data'.ping_message_id # data.ping_message_id
                  /\ TruthyInt(data'.ping_message_id)))
            => \E t \in Ops :
                 /\ tasks[t].pc = "ping_send"
                 /\ tasks[t].kind = "presence"
                 /\ tasks[t].old_party = None
                 /\ tasks[t].new_party # None
                 /\ Pings' = Pings \cup {PingMsg(next_id, tasks[t].new_party)}
                 /\ data'.ping_message_id = next_id]_vars

\* C15 witness: a ping sent in this run is live and stored, for party 4/4, with
\* no code.
C15_PingIssued ==
    /\ data.ping_message_id >= 3
    /\ PingMsg(data.ping_message_id, FormatParty(<<4, 4>>)) \in channel
    /\ data.party_info = FormatParty(<<4, 4>>)
    /\ data.code = None

\* The record of a reconciliation that found the stored party gone.
Departure(r) ==
    r.kind = "presence" /\ r.user = USER_ID /\ r.old_party # None /\ r.new_party = None

\* C16 as stated: when a departure's reconciliation has ended, party_info, code
\* and ping_message_id are absent and the status has been rendered.
C16_AllAbsentAtEnd ==
    [][(last_done' # last_done /\ Departure(last_done'))
        => /\ data'.party_info = None
           /\ data'.code = None
           /\ data'.ping_message_id = NoneInt
           /\ last_done'.embed # NoEmbed]_vars

\* C16 as amended: the departure's first step makes party_info and code absent
\* and, if a ping handle is stored, asks for that message; when the fetch or the
\* delete has returned, by success or by any failure, the handle is cleared, a
\* save is scheduled and the status is rendered from the session as it then is.
\* If no other handler has run, all three fields are absent when it ends.
C16_AloneAllAbsent ==
    (started = 1 /\ last_done.op = 1 /\ Departure(last_done))
    => /\ data.party_info = None
       /\ data.code = None
       /\ data.ping_message_id = NoneInt
       /\ last_done.embed = build_embed(data)

\* C16 as amended, the steps of the departure and its end when it ran alone.
C16_Departure ==
    /\ []C16_AloneAllAbsent
    /\ [][/\ (Starts /\ Departure(Newest'))
              => /\ data'.party_info = None
                 /\ data'.code = None
                 /\ data'.timestamp = now
                 /\ IF TruthyInt(data.ping_message_id) /\ lobby_channel
                    THEN /\ Newest'.pc = "ping_fetch"
                         /\ Newest'.msg = data.ping_message_id
                         /\ data'.ping_message_id = data.ping_message_id
                    ELSE /\ data'.ping_message_id = NoneInt
                         /\ calls' = calls + 1
                         /\ Newest'.embed = build_embed(data')
          /\ \A t \in Ops :
               (/\ Departure(tasks[t])
                /\ tasks[t].pc \in {"ping_fetch", "ping_delete"}
                /\ After(t).pc \notin {"ping_fetch", "ping_delete"})
               => /\ data'.ping_message_id = NoneInt
                  /\ (\A m \in channel' : m.id # tasks[t].msg) \/ faults_left' < faults_left
                  /\ calls' = calls + 1
                  /\ After(t).embed = build_embed(data')]_vars

\* C16 witness: the only handler so far was a departure from the stored party;
\* its ping is gone from the channel and all three fields are absent.
C16_Departed ==
    /\ started = 1
    /\ last_done.op = 1
    /\ Departure(last_done)
    /\ disk.ping_message_id = 2
    /\ Pings = {}
    /\ data.party_info = None
    /\ data.ping_message_id = NoneInt

\* C17 as stated: while a `set` that changes the code is still at the fetch or
\* the delete of the old ping, the session does not yet hold the new code
\* together with the old ping handle.
C17_PingGoneBeforeCode ==
    \A t \in Ops :
        (/\ tasks[t].kind = "set"
         /\ tasks[t].pc \in {"ping_fetch", "ping_delete"}
         /\ tasks[t].code # tasks[t].old_code)
        => ~(data.code = tasks[t].code /\ data.ping_message_id = tasks[t].msg)

\* C18 as stated: once no handler is under way and no timer is pending, the
\* file holds the session: loading it gives the session in memory.
C18_FileHoldsSession ==
    (data # Unbound /\ timers = {} /\ \A t \in 0..MaxOps : tasks[t].pc \in {"new", "done"})
    => load_data(disk) = data

\* C19 as stated: once on_ready and every handler have ended, the status message
\* the session refers to, if it is the only one and was last edited by a handler
\* (not by on_ready), shows the rendering of the session as it is.
C19_StatusShowsSession ==
    (tasks[0].pc = "done" /\ Cardinality(Statuses) = 1 /\ \A t \in Ops : tasks[t].pc = "new")
    => \A m \in Statuses :
          (m.id = data.message_id /\ m.embed # tasks[0].embed) => m.embed = build_embed(data)

\* C20 as stated: while no handler is suspended, and no ping deletion has
\* failed, every ping that is live in the channel is the one ping_message_id
\* refers to, and party_info is present and code absent.
C20_NoLingeringPing ==
    (~del_failed /\ \A t \in 0..MaxOps : tasks[t].pc \in {"new", "done"})
    => \A p \in Pings :
          /\ p.id = data.ping_message_id
          /\ data.party_info # None
          /\ data.code = None

====
